---------------------------- MODULE Spec2Model ----------------------------
(***************************************************************************)
(* Model of ga4gh/converters/converters.py: the SAM path                   *)
(* (SamCigar, SamFlags, SamConverter, SamLine).                            *)
(*                                                                         *)
(* Two specifications share the variables:                                 *)
(*   Spec   the control flow of SamConverter.convert over a finite input   *)
(*          sequence of reads and a sink that may refuse a write;          *)
(*   SpecT  single calls of SamLine.toAlignedSegment, SamCigar.ga2int and  *)
(*          SamCigar.int2ga on inputs drawn from bounded sets.             *)
(*                                                                         *)
(* Python values: an optional object is a record with the field isNone;    *)
(* a call that may raise returns a record whose field exc names the        *)
(* exception ("None" when the call returned).                              *)
(*                                                                         *)
(* Fields of the read that no property below reads (aligned_sequence,      *)
(* aligned_quality, attributes) and the matching assignments of            *)
(* toAlignedSegment (query_sequence, query_qualities, tags) are left out   *)
(* of the records.                                                         *)
(***************************************************************************)
EXTENDS Integers, Sequences, FiniteSets, TLC

VARIABLES
    pc,               \* control position of the running call
    reference,        \* self._reference: [name, length]
    header,           \* local header of convert
    targetIds,        \* local targetIds of convert (a defaultdict(int))
    input,            \* the reads the iterator will yield, in order
    nextIdx,          \* number of reads pulled from the iterator so far
    read,             \* loop variable read
    alignedSegment,   \* local alignedSegment
    sink,             \* what the alignment file has received, in order
    sinkBroken,       \* the sink has refused a write
    closed,           \* alignmentFile.close() was called
    error,            \* exception that left the call ("None" if none)
    kindArg,          \* argument of SamCigar.ga2int
    codeArg,          \* argument of SamCigar.int2ga
    ga2intRet,        \* value returned by SamCigar.ga2int
    int2gaRet         \* outcome of SamCigar.int2ga

vars == <<pc, reference, header, targetIds, input, nextIdx, read,
          alignedSegment, sink, sinkBroken, closed, error,
          kindArg, codeArg, ga2intRet, int2gaRet>>

-----------------------------------------------------------------------------
(* Bounds of the model *)

MaxReads == 2          \* longest input sequence of convert
MaxCigarLen == 2       \* longest CIGAR list of an alignment
MaxCode == 11          \* int2ga is called on codes -MaxCode .. MaxCode

-----------------------------------------------------------------------------
(* Python values *)

PyNone == [isNone |-> TRUE]
PyInt(i) == [isNone |-> FALSE, int |-> i]

Returned(v) == [exc |-> "None", value |-> v]
Raised(e) == [exc |-> e]

-----------------------------------------------------------------------------
(* SamCigar *)

cigarStrings_swapped ==
    << "ALIGNMENT_MATCH", "DELETE", "INSERT", "SKIP", "CLIP_SOFT",
       "CLIP_HARD", "PAD", "SEQUENCE_MATCH", "SEQUENCE_MISMATCH" >>

cigarStrings ==
    << "ALIGNMENT_MATCH", "INSERT", "DELETE", "SKIP", "CLIP_SOFT",
       "CLIP_HARD", "PAD", "SEQUENCE_MATCH", "SEQUENCE_MISMATCH" >>

\* The loop of ga2int from index i on (0-based, as enumerate counts);
\* falling off the end of the loop returns None.
RECURSIVE ga2intFrom(_, _)
ga2intFrom(value, i) ==
    IF i >= Len(cigarStrings) THEN PyNone
    ELSE IF value = cigarStrings[i + 1] THEN PyInt(i)
    ELSE ga2intFrom(value, i + 1)

ga2int(value) == ga2intFrom(value, 0)

\* cls.cigarStrings[value]: Python list indexing, where an index in
\* -len .. -1 counts from the end and anything else out of range raises.
int2ga(value) ==
    LET n == Len(cigarStrings) IN
    IF 0 <= value /\ value < n THEN Returned(cigarStrings[value + 1])
    ELSE IF -n <= value /\ value < 0 THEN Returned(cigarStrings[n + value + 1])
    ELSE Raised("IndexError")

-----------------------------------------------------------------------------
(* SamFlags *)

READ_PAIRED == 1
READ_PROPER_PAIR == 2
READ_UNMAPPED == 4
MATE_UNMAPPED == 8
READ_REVERSE_STRAND == 16
MATE_REVERSE_STRAND == 32
FIRST_IN_PAIR == 64
SECOND_IN_PAIR == 128
SECONDARY_ALIGNMENT == 256
FAILED_QUALITY_CHECK == 512
DUPLICATE_READ == 1024
SUPPLEMENTARY_ALIGNMENT == 2048

\* Python's a & b and a | b on non-negative integers
RECURSIVE BitAnd(_, _)
BitAnd(a, b) ==
    IF a = 0 \/ b = 0 THEN 0
    ELSE (IF a % 2 = 1 /\ b % 2 = 1 THEN 1 ELSE 0)
         + 2 * BitAnd(a \div 2, b \div 2)

RECURSIVE BitOr(_, _)
BitOr(a, b) ==
    IF a = 0 THEN b
    ELSE IF b = 0 THEN a
    ELSE (IF a % 2 = 1 \/ b % 2 = 1 THEN 1 ELSE 0)
         + 2 * BitOr(a \div 2, b \div 2)

isFlagSet(flagAttr, flag) == BitAnd(flagAttr, flag) = flag

setFlag(flagAttr, flag) == BitOr(flagAttr, flag)

-----------------------------------------------------------------------------
(* protocol: strands and the serialized size of a Position message *)

NEG_STRAND == "NEG_STRAND"

Strands == {"STRAND_UNSPECIFIED", "NEG_STRAND", "POS_STRAND"}

\* Position.ByteSize(): proto3 serializes only the fields that differ from
\* their default, so the size is 0 exactly for a cleared message.
ByteSize(p) ==
    (IF p.reference_name # "" THEN 2 + Len(p.reference_name) ELSE 0)
    + (IF p.position # 0 THEN 2 ELSE 0)
    + (IF p.strand # "STRAND_UNSPECIFIED" THEN 2 ELSE 0)

-----------------------------------------------------------------------------
(* collections.defaultdict(int): a function from its keys to integers *)

EmptyDict == [k \in {} |-> 0]

\* d[k] = v
DictSet(d, k, v) == [x \in DOMAIN d \cup {k} |-> IF x = k THEN v ELSE d[x]]

\* d[k]: a missing key is inserted with int() = 0, which is returned
DictGet(d, k) ==
    IF k \in DOMAIN d THEN [value |-> d[k], dict |-> d]
    ELSE [value |-> 0, dict |-> DictSet(d, k, 0)]

-----------------------------------------------------------------------------
(* SamConverter._getHeader, SamConverter._getTargetIds *)

_getHeader(ref) ==
    [HD |-> [VN |-> "1.0"],
     SQ |-> << [LN |-> ref.length, SN |-> ref.name] >>]

RECURSIVE getTargetIdsLoop(_, _, _)
getTargetIdsLoop(headerLines, ids, targetId) ==
    IF headerLines = << >> THEN ids
    ELSE getTargetIdsLoop(Tail(headerLines),
                          DictSet(ids, Head(headerLines).SN, targetId),
                          targetId + 1)

_getTargetIds(h) ==
    IF "SQ" \in DOMAIN h THEN getTargetIdsLoop(h.SQ, EmptyDict, 0)
    ELSE EmptyDict

-----------------------------------------------------------------------------
(* SamLine *)

\* pysam.AlignedSegment(): the fields toAlignedSegment does not assign keep
\* the values the constructor gives them (tid, pos, mtid, mpos are -1 and
\* the rest 0 or empty in current pysam).
NewAlignedSegment ==
    [query_name |-> "", flag |-> 0,
     reference_id |-> -1, reference_start |-> -1, mapping_quality |-> 0,
     cigar |-> << >>,
     next_reference_id |-> -1, next_reference_start |-> -1,
     template_length |-> 0]

\* if cond: flag = SamFlags.setFlag(flag, bit)
SetIf(cond, flag, bit) == IF cond THEN setFlag(flag, bit) ELSE flag

\* the if/elif/else of toSamFlag over read.read_number
PairMember(read_number, flag) ==
    IF read_number = -1 THEN flag
    ELSE IF read_number = 0 THEN setFlag(flag, FIRST_IN_PAIR)
    ELSE IF read_number = 1 THEN setFlag(flag, SECOND_IN_PAIR)
    ELSE setFlag(setFlag(flag, FIRST_IN_PAIR), SECOND_IN_PAIR)

\* read.next_mate_position.ByteSize() on None raises AttributeError, and
\* the statements after it do not run.
toSamFlag(r) ==
    LET f0 == 0
        f1 == SetIf(r.number_reads = 2, f0, READ_PAIRED)
        f2 == SetIf(~r.improper_placement, f1, READ_PROPER_PAIR)
        f3 == SetIf(r.alignment.isNone, f2, READ_UNMAPPED)
        f4 == SetIf(ByteSize(r.next_mate_position) = 0, f3, MATE_UNMAPPED)
        f5 == SetIf(~r.alignment.isNone
                      /\ r.alignment.position.strand = NEG_STRAND,
                    f4, READ_REVERSE_STRAND)
        f6 == SetIf(~r.next_mate_position.isNone
                      /\ r.next_mate_position.strand = NEG_STRAND,
                    f5, MATE_REVERSE_STRAND)
        f7 == PairMember(r.read_number, f6)
        f8 == SetIf(r.secondary_alignment, f7, SECONDARY_ALIGNMENT)
        f9 == SetIf(r.failed_vendor_quality_checks, f8, FAILED_QUALITY_CHECK)
        f10 == SetIf(r.duplicate_fragment, f9, DUPLICATE_READ)
        f11 == SetIf(r.supplementary_alignment, f10, SUPPLEMENTARY_ALIGNMENT)
    IN  IF r.next_mate_position.isNone THEN Raised("AttributeError")
        ELSE Returned(f11)

RECURSIVE toCigarLoop(_, _)
toCigarLoop(cigar, cigarTuples) ==
    IF cigar = << >> THEN cigarTuples
    ELSE LET gaCigarUnit == Head(cigar)
             operation == ga2int(gaCigarUnit.operation)
             length == gaCigarUnit.operation_length
         IN  toCigarLoop(Tail(cigar),
                         Append(cigarTuples, <<operation, length>>))

toCigar(r) ==
    IF ~r.alignment.isNone THEN toCigarLoop(r.alignment.cigar, << >>)
    ELSE << >>

\* Returns the exception, the filled segment and the targetIds dictionary
\* as the lookups leave it.
toAlignedSegment(r, ids) ==
    LET flag == toSamFlag(r)
        rname == IF ~r.alignment.isNone
                 THEN DictGet(ids, r.alignment.position.reference_name)
                 ELSE [value |-> NewAlignedSegment.reference_id, dict |-> ids]
        pos == IF r.alignment.isNone THEN 0
               ELSE r.alignment.position.position
        mapq == IF ~r.alignment.isNone THEN r.alignment.mapping_quality
                ELSE NewAlignedSegment.mapping_quality
        rnext == IF r.next_mate_position.isNone
                 THEN [value |-> -1, dict |-> rname.dict]
                 ELSE DictGet(rname.dict, r.next_mate_position.reference_name)
        pnext == IF r.next_mate_position.isNone THEN -1
                 ELSE r.next_mate_position.position
    IN  IF flag.exc # "None"
        THEN [exc |-> flag.exc, targetIds |-> ids]
        ELSE [exc |-> "None",
              ret |-> [query_name |-> r.fragment_name,
                       flag |-> flag.value,
                       reference_id |-> rname.value,
                       reference_start |-> pos,
                       mapping_quality |-> mapq,
                       cigar |-> toCigar(r),
                       next_reference_id |-> rnext.value,
                       next_reference_start |-> pnext,
                       template_length |-> r.fragment_length],
              targetIds |-> rnext.dict]

-----------------------------------------------------------------------------
(* Inputs *)

\* toAlignedSegment and toSamFlag test read.alignment and
\* read.next_mate_position against None, so either may be None or a
\* message; a message with every field at its default is a cleared one.

References == { [name |-> "chr1", length |-> 1000] }

Names == {"", "chr1", "chr2"}
Positions == {0, 100}
MapQs == {0, 60}
OpLens == {1, 4}

\* the 9 kinds of cigarStrings, and the enum's tenth value
KnownKinds == { cigarStrings[i] : i \in 1..Len(cigarStrings) }
Kinds == KnownKinds \cup {"OPERATION_UNSPECIFIED"}
ReadKinds == {"ALIGNMENT_MATCH", "SEQUENCE_MISMATCH", "OPERATION_UNSPECIFIED"}

PositionMsgs ==
    [isNone : {FALSE}, reference_name : Names, position : Positions,
     strand : Strands]

ClearedPosition ==
    [isNone |-> FALSE, reference_name |-> "", position |-> 0,
     strand |-> "STRAND_UNSPECIFIED"]

Mates == {PyNone} \cup PositionMsgs

CigarUnits == [operation : ReadKinds, operation_length : OpLens]

CigarLists == UNION { [1..n -> CigarUnits] : n \in 0..MaxCigarLen }

Alignments ==
    {PyNone} \cup
    [isNone : {FALSE}, position : PositionMsgs, mapping_quality : MapQs,
     cigar : CigarLists]

MatchCigar == << [operation |-> "ALIGNMENT_MATCH", operation_length |-> 4] >>

\* every combination of the fields toSamFlag reads
FlagReads ==
    [fragment_name : {"r1"},
     alignment : {PyNone} \cup
                 [isNone : {FALSE},
                  position : [isNone : {FALSE}, reference_name : {"chr1"},
                              position : {100}, strand : Strands],
                  mapping_quality : {60}, cigar : {MatchCigar}],
     next_mate_position : Mates,
     number_reads : {1, 2},
     improper_placement : BOOLEAN,
     read_number : {-1, 0, 1, 2},
     secondary_alignment : BOOLEAN,
     failed_vendor_quality_checks : BOOLEAN,
     duplicate_fragment : BOOLEAN,
     supplementary_alignment : BOOLEAN,
     fragment_length : {150}]

\* every alignment and mate, on a paired, proper, first-in-pair read
SegReads ==
    [fragment_name : {"r1"},
     alignment : Alignments,
     next_mate_position : Mates,
     number_reads : {2},
     improper_placement : {FALSE},
     read_number : {0},
     secondary_alignment : {FALSE},
     failed_vendor_quality_checks : {FALSE},
     duplicate_fragment : {FALSE},
     supplementary_alignment : {FALSE},
     fragment_length : {150}]

AllReads == FlagReads \cup SegReads

\* the reads the iterator of convert yields
PipeReads ==
    [fragment_name : {"r1", "r2"},
     alignment : {PyNone,
                  [isNone |-> FALSE,
                   position |-> [isNone |-> FALSE, reference_name |-> "chr1",
                                 position |-> 100, strand |-> "POS_STRAND"],
                   mapping_quality |-> 60, cigar |-> MatchCigar],
                  [isNone |-> FALSE,
                   position |-> [isNone |-> FALSE, reference_name |-> "chr2",
                                 position |-> 0, strand |-> "NEG_STRAND"],
                   mapping_quality |-> 0,
                   cigar |-> << [operation |-> "OPERATION_UNSPECIFIED",
                                 operation_length |-> 1] >>]},
     next_mate_position : {PyNone, ClearedPosition,
                           [isNone |-> FALSE, reference_name |-> "chr1",
                            position |-> 100, strand |-> "POS_STRAND"]},
     number_reads : {2},
     improper_placement : {FALSE},
     read_number : {0},
     secondary_alignment : {FALSE},
     failed_vendor_quality_checks : {FALSE},
     duplicate_fragment : {FALSE},
     supplementary_alignment : {FALSE},
     fragment_length : {150}]

Inputs == UNION { [1..n -> PipeReads] : n \in 0..MaxReads }

Codes == (-MaxCode)..MaxCode

NotCalled == [exc |-> "NotCalled"]

-----------------------------------------------------------------------------
(* The output sink: pysam.AlignmentFile *)

HeaderEntry(h) == [kind |-> "header", header |-> h]
RecordEntry(seg) == [kind |-> "record", segment |-> seg]

\* pysam.AlignmentFile(fileString, flags, header=header) emits the header
AlignmentFileOpen(h) == << HeaderEntry(h) >>

AlignmentFileWrite_first(s, seg) ==
    << s[1], RecordEntry(seg) >> \o Tail(s)

\* alignmentFile.write(alignedSegment) puts the record after what was written
AlignmentFileWrite(s, seg) == Append(s, RecordEntry(seg))

-----------------------------------------------------------------------------
(* SamConverter.convert *)

cigarVars == <<kindArg, codeArg, ga2intRet, int2gaRet>>

Init ==
    /\ pc = "start"
    /\ reference \in References
    /\ header = PyNone
    /\ targetIds = EmptyDict
    /\ input \in Inputs
    /\ nextIdx = 0
    /\ read = PyNone
    /\ alignedSegment = PyNone
    /\ sink = << >>
    /\ sinkBroken = FALSE
    /\ closed = FALSE
    /\ error = "None"
    /\ kindArg = ""
    /\ codeArg = 0
    /\ ga2intRet = PyNone
    /\ int2gaRet = NotCalled

\* header, targetIds, the alignment file and the iterator
Setup ==
    /\ pc = "start"
    /\ header' = _getHeader(reference)
    /\ targetIds' = _getTargetIds(header')
    /\ sink' = AlignmentFileOpen(header')
    /\ pc' = "for"
    /\ UNCHANGED <<reference, input, nextIdx, read, alignedSegment,
                   sinkBroken, closed, error, cigarVars>>

\* for read in iterator: the iterator yields its next read
Pull ==
    /\ pc = "for"
    /\ nextIdx < Len(input)
    /\ read' = input[nextIdx + 1]
    /\ nextIdx' = nextIdx + 1
    /\ pc' = "transcode"
    /\ UNCHANGED <<reference, header, targetIds, input, alignedSegment,
                   sink, sinkBroken, closed, error, cigarVars>>

\* for read in iterator: the iterator is exhausted
Exhausted ==
    /\ pc = "for"
    /\ nextIdx = Len(input)
    /\ pc' = "close"
    /\ UNCHANGED <<reference, header, targetIds, input, nextIdx, read,
                   alignedSegment, sink, sinkBroken, closed, error, cigarVars>>

\* alignedSegment = SamLine.toAlignedSegment(read, targetIds)
Transcode ==
    /\ pc = "transcode"
    /\ LET out == toAlignedSegment(read, targetIds) IN
         /\ targetIds' = out.targetIds
         /\ IF out.exc = "None"
            THEN /\ alignedSegment' = out.ret
                 /\ pc' = "write"
                 /\ error' = error
            ELSE /\ alignedSegment' = alignedSegment
                 /\ pc' = "raised"
                 /\ error' = out.exc
    /\ UNCHANGED <<reference, header, input, nextIdx, read, sink,
                   sinkBroken, closed, cigarVars>>

\* alignmentFile.write(alignedSegment), accepted by the sink
WriteOk ==
    /\ pc = "write"
    /\ sink' = AlignmentFileWrite(sink, alignedSegment)
    /\ pc' = "for"
    /\ UNCHANGED <<reference, header, targetIds, input, nextIdx, read,
                   alignedSegment, sinkBroken, closed, error, cigarVars>>

WriteFail_swallowed ==
    /\ pc = "write"
    /\ sinkBroken' = TRUE
    /\ pc' = "for"
    /\ UNCHANGED <<reference, header, targetIds, input, nextIdx, read,
                   alignedSegment, sink, closed, error, cigarVars>>

\* alignmentFile.write(alignedSegment), refused by the sink: the exception
\* leaves convert, which has no handler
WriteFail ==
    /\ pc = "write"
    /\ sinkBroken' = TRUE
    /\ error' = "IOError"
    /\ pc' = "raised"
    /\ UNCHANGED <<reference, header, targetIds, input, nextIdx, read,
                   alignedSegment, sink, closed, cigarVars>>

\* alignmentFile.close()
Close ==
    /\ pc = "close"
    /\ closed' = TRUE
    /\ pc' = "done"
    /\ UNCHANGED <<reference, header, targetIds, input, nextIdx, read,
                   alignedSegment, sink, sinkBroken, error, cigarVars>>

Next ==
    \/ Setup
    \/ Pull
    \/ Exhausted
    \/ Transcode
    \/ WriteOk
    \/ WriteFail
    \/ Close

Spec == Init /\ [][Next]_vars

-----------------------------------------------------------------------------
(* Single calls of SamLine.toAlignedSegment, SamCigar.ga2int, SamCigar.int2ga *)

pipeVars == <<reference, header, input, nextIdx, sink, sinkBroken, closed>>

InitT ==
    /\ reference \in References
    /\ header = _getHeader(reference)
    /\ targetIds = _getTargetIds(header)
    /\ input = << >>
    /\ nextIdx = 0
    /\ alignedSegment = PyNone
    /\ sink = << >>
    /\ sinkBroken = FALSE
    /\ closed = FALSE
    /\ error = "None"
    /\ ga2intRet = PyNone
    /\ int2gaRet = NotCalled
    /\ \/ /\ pc = "toAlignedSegment"
          /\ read \in AllReads
          /\ kindArg = ""
          /\ codeArg = 0
       \/ /\ pc = "ga2int"
          /\ read = PyNone
          /\ kindArg \in Kinds
          /\ codeArg = 0
       \/ /\ pc = "int2ga"
          /\ read = PyNone
          /\ kindArg = ""
          /\ codeArg \in Codes

CallToAlignedSegment ==
    /\ pc = "toAlignedSegment"
    /\ LET out == toAlignedSegment(read, targetIds) IN
         /\ targetIds' = out.targetIds
         /\ IF out.exc = "None"
            THEN /\ alignedSegment' = out.ret
                 /\ pc' = "returned"
                 /\ error' = error
            ELSE /\ alignedSegment' = alignedSegment
                 /\ pc' = "raised"
                 /\ error' = out.exc
    /\ UNCHANGED <<pipeVars, read, cigarVars>>

\* SamCigar.ga2int(kindArg); a code it returns is handed to int2ga
CallGa2int ==
    /\ pc = "ga2int"
    /\ ga2intRet' = ga2int(kindArg)
    /\ IF ga2intRet'.isNone
       THEN pc' = "returned" /\ codeArg' = codeArg
       ELSE pc' = "int2ga" /\ codeArg' = ga2intRet'.int
    /\ UNCHANGED <<pipeVars, targetIds, read, alignedSegment, error,
                   kindArg, int2gaRet>>

\* SamCigar.int2ga(codeArg)
CallInt2ga ==
    /\ pc = "int2ga"
    /\ int2gaRet' = int2ga(codeArg)
    /\ IF int2gaRet'.exc = "None"
       THEN pc' = "returned" /\ error' = error
       ELSE pc' = "raised" /\ error' = int2gaRet'.exc
    /\ UNCHANGED <<pipeVars, targetIds, read, alignedSegment,
                   kindArg, codeArg, ga2intRet>>

NextT ==
    \/ CallToAlignedSegment
    \/ CallGa2int
    \/ CallInt2ga

SpecT == InitT /\ [][NextT]_vars

-----------------------------------------------------------------------------
(* Vocabulary of the properties *)

\* the running call is toAlignedSegment(read, targetIds) and it has ended
SegmentCallEnded ==
    /\ "fragment_name" \in DOMAIN read
    /\ pc \in {"returned", "raised"}

SegmentProduced ==
    /\ "fragment_name" \in DOMAIN read
    /\ pc = "returned"

AlignmentAbsent(r) == r.alignment.isNone
MateAbsent(r) == r.next_mate_position.isNone
MateCleared(r) == r.next_mate_position = ClearedPosition

HeaderNames(h) == { h.SQ[i].SN : i \in 1..Len(h.SQ) }
HeaderIds(h) == 0..(Len(h.SQ) - 1)

\* the table the header defines: each SQ name at its zero-based position
HeaderTable(h) ==
    [n \in HeaderNames(h) |->
        (CHOOSE i \in 1..Len(h.SQ) : h.SQ[i].SN = n) - 1]

\* the standard SAM operation codes
SamCode ==
    ("ALIGNMENT_MATCH" :> 0) @@ ("INSERT" :> 1) @@ ("DELETE" :> 2)
    @@ ("SKIP" :> 3) @@ ("CLIP_SOFT" :> 4) @@ ("CLIP_HARD" :> 5)
    @@ ("PAD" :> 6) @@ ("SEQUENCE_MATCH" :> 7) @@ ("SEQUENCE_MISMATCH" :> 8)

Bit(cond, b) == IF cond THEN b ELSE 0

\* the flag the rules of the flag computation give, bit by bit
RuleFlag(r) ==
    Bit(r.number_reads = 2, 1)
    + Bit(~r.improper_placement, 2)
    + Bit(AlignmentAbsent(r), 4)
    + Bit(MateAbsent(r) \/ MateCleared(r), 8)
    + Bit(~AlignmentAbsent(r) /\ r.alignment.position.strand = "NEG_STRAND", 16)
    + Bit(~MateAbsent(r) /\ r.next_mate_position.strand = "NEG_STRAND", 32)
    + Bit(r.read_number = 0 \/ r.read_number \notin {-1, 0, 1}, 64)
    + Bit(r.read_number = 1 \/ r.read_number \notin {-1, 0, 1}, 128)
    + Bit(r.secondary_alignment, 256)
    + Bit(r.failed_vendor_quality_checks, 512)
    + Bit(r.duplicate_fragment, 1024)
    + Bit(r.supplementary_alignment, 2048)

\* mapped, forward, paired, proper, first in pair, all booleans false
PlainRead(r) ==
    /\ ~AlignmentAbsent(r)
    /\ r.alignment.position.strand = "POS_STRAND"
    /\ ~MateAbsent(r)
    /\ ~MateCleared(r)
    /\ r.next_mate_position.strand = "POS_STRAND"
    /\ r.number_reads = 2
    /\ ~r.improper_placement
    /\ r.read_number = 0
    /\ ~r.secondary_alignment
    /\ ~r.failed_vendor_quality_checks
    /\ ~r.duplicate_fragment
    /\ ~r.supplementary_alignment

\* records written to the sink so far
NumWritten == IF sink = << >> THEN 0 ELSE Len(sink) - 1

\* the record the i-th read of the input transcodes to
Expected(i) ==
    toAlignedSegment(input[i], _getTargetIds(_getHeader(reference))).ret

-----------------------------------------------------------------------------
(* Properties of SamLine.toSamFlag and SamLine.toAlignedSegment (SpecT) *)

\* C1: for every read, toSamFlag returns exactly the OR of the bits whose
\* rule holds (0x8 iff the mate position is absent or cleared, ...), and
\* the plain mapped paired read yields 0x43.
C1_FlagIsRuleFlag ==
    SegmentCallEnded =>
        /\ pc = "returned"
        /\ alignedSegment.flag = RuleFlag(read)
        /\ PlainRead(read) => alignedSegment.flag = 67

\* The rules of C1 on the reads whose mate position is an object.
FlagIsRuleFlagWhenMateIsObject ==
    (SegmentCallEnded /\ ~MateAbsent(read)) =>
        /\ pc = "returned"
        /\ alignedSegment.flag = RuleFlag(read)
        /\ PlainRead(read) => alignedSegment.flag = 67

\* C2: every record produced from a read whose mate position is absent or
\* cleared has bit 0x8, mate reference id -1 and mate position -1; every
\* record produced from a read with a present, non-cleared mate has no bit
\* 0x8, the mate's target id and its raw coordinate: bit 0x8 and the -1/-1
\* mate fields agree on whether the mate is absent.
C2_MateFieldsAgreeWithFlag ==
    SegmentProduced =>
        /\ IF MateAbsent(read) \/ MateCleared(read)
           THEN /\ isFlagSet(alignedSegment.flag, MATE_UNMAPPED)
                /\ alignedSegment.next_reference_id = -1
                /\ alignedSegment.next_reference_start = -1
           ELSE /\ ~isFlagSet(alignedSegment.flag, MATE_UNMAPPED)
                /\ alignedSegment.next_reference_id
                     = targetIds[read.next_mate_position.reference_name]
                /\ alignedSegment.next_reference_start
                     = read.next_mate_position.position
        /\ isFlagSet(alignedSegment.flag, MATE_UNMAPPED)
             <=> (alignedSegment.next_reference_id = -1
                    /\ alignedSegment.next_reference_start = -1)

\* The second half of C2, on the reads with a present, non-cleared mate.
MateFieldsWhenMatePresent ==
    (SegmentCallEnded /\ ~MateAbsent(read) /\ ~MateCleared(read)) =>
        /\ pc = "returned"
        /\ ~isFlagSet(alignedSegment.flag, MATE_UNMAPPED)
        /\ alignedSegment.next_reference_id
             = targetIds[read.next_mate_position.reference_name]
        /\ alignedSegment.next_reference_start
             = read.next_mate_position.position

\* C3: a read whose alignment is absent is transcoded to a record with bit
\* 0x4, reference id -1, position 0, default mapping quality and an empty
\* CIGAR; a read whose alignment is present gets the table's id of its
\* reference name, its position and its mapping quality.
C3_OwnPlacementFields ==
    SegmentCallEnded =>
        IF AlignmentAbsent(read)
        THEN /\ pc = "returned"
             /\ isFlagSet(alignedSegment.flag, READ_UNMAPPED)
             /\ alignedSegment.reference_id = -1
             /\ alignedSegment.reference_id \notin HeaderIds(header)
             /\ alignedSegment.reference_start = 0
             /\ alignedSegment.mapping_quality = 0
             /\ alignedSegment.cigar = << >>
        ELSE /\ pc = "returned"
             /\ alignedSegment.reference_id
                  = targetIds[read.alignment.position.reference_name]
             /\ alignedSegment.reference_start
                  = read.alignment.position.position
             /\ alignedSegment.mapping_quality
                  = read.alignment.mapping_quality

\* The fields of C3 on the records toAlignedSegment does produce.
OwnPlacementFieldsWhenProduced ==
    SegmentProduced =>
        IF AlignmentAbsent(read)
        THEN /\ isFlagSet(alignedSegment.flag, READ_UNMAPPED)
             /\ alignedSegment.reference_id = -1
             /\ alignedSegment.reference_start = 0
             /\ alignedSegment.mapping_quality = 0
             /\ alignedSegment.cigar = << >>
        ELSE /\ alignedSegment.reference_id
                  = targetIds[read.alignment.position.reference_name]
             /\ alignedSegment.reference_start
                  = read.alignment.position.position
             /\ alignedSegment.mapping_quality
                  = read.alignment.mapping_quality

\* C4: when the alignment or the mate position names a reference that is
\* not in the header's table, no record is produced whose reference id (or
\* mate reference id) is a target id of the table: the call raises or the
\* id is -1.
C4_UnknownReferenceNeverGetsTargetId ==
    SegmentProduced =>
        /\ (~AlignmentAbsent(read)
              /\ read.alignment.position.reference_name # ""
              /\ read.alignment.position.reference_name
                   \notin HeaderNames(header))
           => alignedSegment.reference_id = -1
        /\ (~MateAbsent(read)
              /\ read.next_mate_position.reference_name # ""
              /\ read.next_mate_position.reference_name
                   \notin HeaderNames(header))
           => alignedSegment.next_reference_id = -1

\* C8: a CIGAR kind outside the 9 known kinds is an error: ga2int does not
\* return without a code, and no record is produced with a CIGAR tuple
\* whose operation code is not an integer in 0..8; a record whose kinds are
\* all known gets one (code, length) tuple per unit, in the input order.
C8_UnknownKindIsAnError ==
    /\ (kindArg \in Kinds \ KnownKinds /\ pc # "ga2int") => ~ga2intRet.isNone
    /\ SegmentProduced =>
         /\ \A i \in 1..Len(alignedSegment.cigar) :
               /\ ~alignedSegment.cigar[i][1].isNone
               /\ alignedSegment.cigar[i][1].int \in 0..8
         /\ ~AlignmentAbsent(read) =>
               /\ Len(alignedSegment.cigar) = Len(read.alignment.cigar)
               /\ \A i \in 1..Len(read.alignment.cigar) :
                     alignedSegment.cigar[i][2]
                       = read.alignment.cigar[i].operation_length

\* The second half of C8: the records whose kinds are all known.
CigarOfKnownKinds ==
    (SegmentProduced /\ ~AlignmentAbsent(read)
       /\ \A i \in 1..Len(read.alignment.cigar) :
             read.alignment.cigar[i].operation \in KnownKinds)
    => alignedSegment.cigar
         = [i \in 1..Len(read.alignment.cigar) |->
              << PyInt(SamCode[read.alignment.cigar[i].operation]),
                 read.alignment.cigar[i].operation_length >>]

-----------------------------------------------------------------------------
(* Properties of SamCigar (SpecT) *)

\* C6: for each of the 9 known kinds k, ga2int(k) is the standard SAM code
\* of k (ALIGNMENT_MATCH = 0, ..., SEQUENCE_MISMATCH = 8) and
\* int2ga(ga2int(k)) = k.
C6_CigarRoundTrip ==
    (kindArg \in KnownKinds /\ pc # "ga2int") =>
        /\ ga2intRet = PyInt(SamCode[kindArg])
        /\ ga2intRet.int \in 0..8
        /\ codeArg = SamCode[kindArg]
        /\ pc \in {"returned", "raised"} => int2gaRet = Returned(kindArg)

C6_Witness ==
    /\ pc = "returned"
    /\ kindArg = "SEQUENCE_MISMATCH"
    /\ ga2intRet = PyInt(8)
    /\ int2gaRet = Returned("SEQUENCE_MISMATCH")

\* C7: int2ga(c) fails with an out-of-range error for every code c outside
\* 0..8, negative codes included, and returns a kind only for c in 0..8.
C7_Int2gaRejectsOutOfRange ==
    (pc \in {"returned", "raised"} /\ int2gaRet # NotCalled) =>
        IF codeArg \in 0..8
        THEN int2gaRet.exc = "None" /\ int2gaRet.value \in KnownKinds
        ELSE int2gaRet = Raised("IndexError") /\ pc = "raised"

\* The codes int2ga does reject, and what it returns for the others.
Int2gaOnPythonIndexes ==
    (pc \in {"returned", "raised"} /\ int2gaRet # NotCalled) =>
        /\ codeArg \in 0..8 => int2gaRet = Returned(cigarStrings[codeArg + 1])
        /\ codeArg \in (-9)..(-1)
             => int2gaRet = Returned(cigarStrings[codeArg + 10])
        /\ codeArg \notin (-9)..8 => int2gaRet = Raised("IndexError")

-----------------------------------------------------------------------------
(* Properties of SamConverter.convert (Spec) *)

\* C5: the header is emitted exactly once and before any record; the
\* records written are the transcoded reads of the input, one per read, in
\* the order of arrival; the record of a read is written before the next
\* read is pulled, so at most one read is held.
C5_HeaderThenRecordsInOrder ==
    /\ pc = "start" => sink = << >>
    /\ pc # "start" =>
         /\ Len(sink) >= 1
         /\ sink[1] = HeaderEntry(_getHeader(reference))
         /\ \A i \in 2..Len(sink) : sink[i].kind = "record"
    /\ NumWritten <= nextIdx
    /\ nextIdx - NumWritten \in {0, 1}
    /\ \A i \in 1..NumWritten : sink[i + 1] = RecordEntry(Expected(i))
    /\ pc \in {"transcode", "write"} =>
         /\ NumWritten = nextIdx - 1
         /\ read = input[nextIdx]
    /\ pc \in {"for", "close", "done"} => NumWritten = nextIdx
    /\ pc = "done" => NumWritten = Len(input) /\ closed

C5_Witness ==
    /\ pc = "done"
    /\ Len(input) >= 2
    /\ NumWritten = Len(input)
    /\ sink[2] # sink[3]

\* C9: the table _getTargetIds returns is unchanged by any sequence of
\* toAlignedSegment calls: it holds exactly the header's reference names,
\* each at its zero-based position in the SQ list.
C9_TargetIdsUnchanged ==
    pc # "start" => targetIds = HeaderTable(header)

\* C10: when the write of the i-th record fails, or transcoding the i-th
\* read raises, the error leaves convert and convert stops: nothing more is
\* pulled or written, and the records written are exactly those of the
\* first i-1 reads, in the order of arrival.
C10_ErrorStopsConvert ==
    /\ (sinkBroken \/ error # "None") =>
         /\ pc = "raised"
         /\ error # "None"
         /\ ~closed
    /\ sinkBroken => error = "IOError"
    /\ pc = "raised" =>
         /\ nextIdx >= 1
         /\ read = input[nextIdx]
         /\ error = (IF sinkBroken THEN "IOError"
                     ELSE toAlignedSegment(read, targetIds).exc)
         /\ NumWritten = nextIdx - 1
         /\ \A i \in 1..NumWritten : sink[i + 1] = RecordEntry(Expected(i))
         /\ ~ENABLED Next

C10_Witness ==
    /\ pc = "raised"
    /\ sinkBroken
    /\ error = "IOError"
    /\ nextIdx = 2
    /\ NumWritten = 1
    /\ Len(input) > nextIdx - 1

=============================================================================
